---- MODULE Spec2Model ----
(***************************************************************************)
(* Frame-resource pipelining of ShapesApp (Week4-6-ShapeComplete.cpp).     *)
(*                                                                         *)
(* Two timelines: the CPU thread (Initialize, then Update/Draw per frame)  *)
(* and the GPU, which executes the command queue in submission order and   *)
(* raises the fence's completed value when it reaches a Signal.            *)
(*                                                                         *)
(* A matrix is abstracted to a 2x2 matrix <<m11, m12, m21, m22>>; a        *)
(* translation keeps its offset in the last row, as DirectXMath does.      *)
(* C++ indices are kept 0-based: element i of a vector v is v[i + 1].      *)
(***************************************************************************)
EXTENDS Integers, Sequences, FiniteSets, TLC

\* ------------------------------------------------------------------ bounds
\* Largest number of render items BuildRenderItems registers.
MaxItems == 2
\* Number of frames the run loop produces before the model stops it.
MaxFrames == 5
\* Number of transform mutations the environment performs.
MaxMutations == 1
\* Largest number of FlushCommandQueue calls made before ShapesApp::Initialize.
MaxPriorFlushes == 0

\* --------------------------------------------------------------- constants
gNumFrameResources == 3

NullPtr == -1
\* Content of upload-heap memory nothing has been copied to yet: no record
\* the program ever builds.
GarbageObject == [World |-> <<>>]
GarbagePass == [TotalTime |-> -1]

\* ---------------------------------------------------------------- matrices
Identity4x4 == <<1, 0, 0, 1>>

XMMatrixTranslation(t) == <<1, 0, t, 1>>

XMMatrixTranspose(m) == <<m[1], m[3], m[2], m[4]>>

\* The transforms a render item can be given.
Worlds == {XMMatrixTranslation(t) : t \in 0..2}

VARIABLES
    pc,                      \* position of the CPU thread
    mAllRitems,              \* sequence of render items
    mOpaqueRitems,           \* sequence of pointers (0-based positions in mAllRitems)
    mFrameResources,         \* sequence of frame resources
    mCurrFrameResource,      \* NullPtr or the 0-based position of a frame resource
    mCurrFrameResourceIndex,
    mPassCbvOffset,
    mCbvHeap,                \* descriptor heap: 0-based index -> view
    mCurrentFence,           \* last fence value issued by the CPU
    mFence,                  \* the fence's completed value
    mCommandQueue,           \* work submitted to the GPU and not yet finished
    mCommandList,            \* commands recorded by the last Draw
    eventHandle,             \* completion event of the fence wait
    ritemIt,                 \* position of UpdateObjectCBs' loop
    \* history
    frameCount,              \* number of Update calls begun
    slotHist,                \* frame index selected by each Update
    markerHist,              \* fence value each Draw signalled to the queue
    sinceMut,                \* per item: frames produced since its transform was set
    dirtyAtMut,              \* per item: NumFramesDirty its last mutation found
    pendingWorld,            \* per item: transform that was pending at that mutation
    mutations,               \* number of transform mutations made
    objectWrites,            \* number of CopyData calls on object buffers so far
    frameWrites,             \* the same, counted from the last Update on
    \* environment
    gpuHung,                 \* the GPU has hung: it executes nothing any more
    keyState,                \* the '1' key: held down, pressed since the last query
    mIsWireframe,
    sampledDown              \* history: the key was down when Update queried it

vars == <<pc, mAllRitems, mOpaqueRitems, mFrameResources, mCurrFrameResource,
          mCurrFrameResourceIndex, mPassCbvOffset, mCbvHeap, mCurrentFence, mFence,
          mCommandQueue, mCommandList, eventHandle, ritemIt,
          frameCount, slotHist, markerHist, sinceMut, dirtyAtMut, pendingWorld,
          mutations, objectWrites, frameWrites,
          gpuHung, keyState, mIsWireframe, sampledDown>>

cpuVars == <<mAllRitems, mOpaqueRitems, mFrameResources, mCurrFrameResource,
             mCurrFrameResourceIndex, mPassCbvOffset, mCbvHeap, mCurrentFence,
             mCommandList, ritemIt>>

histVars == <<frameCount, slotHist, markerHist, sinceMut, dirtyAtMut, pendingWorld,
              mutations, objectWrites, frameWrites>>

envVars == <<gpuHung, keyState, mIsWireframe, sampledDown>>

keyVars == <<keyState, mIsWireframe, sampledDown>>

\* The command list as Initialize leaves it: no frame recorded yet.
NoCommands == [cmdListAlloc |-> NullPtr, passCbvIndex |-> -1, draws |-> <<>>,
               pso |-> "nullptr"]

NoEvent == [armed |-> FALSE, value |-> 0, signaled |-> FALSE]

\* ------------------------------------------------------------- accessors
NumItems == Len(mAllRitems)

\* The render item at 0-based position k of mAllRitems.
Ritem(k) == mAllRitems[k + 1]

\* The frame resource at 0-based position f of mFrameResources.
FrameRes(f) == mFrameResources[f + 1]

Min(a, b) == IF a < b THEN a ELSE b

\* ----------------------------------------------------------------- Init
Init ==
    /\ pc = "BuildRenderItems"
    /\ mAllRitems = <<>>
    /\ mOpaqueRitems = <<>>
    /\ mFrameResources = <<>>
    /\ mCurrFrameResource = NullPtr
    /\ mCurrFrameResourceIndex = 0
    /\ mPassCbvOffset = 0
    /\ mCbvHeap = <<>>
    /\ mCurrentFence \in 0..MaxPriorFlushes
    /\ mFence = mCurrentFence
    /\ mCommandQueue = <<>>
    /\ mCommandList = NoCommands
    /\ eventHandle = NoEvent
    /\ ritemIt = 0
    /\ frameCount = 0
    /\ slotHist = <<>>
    /\ markerHist = <<>>
    /\ sinceMut = <<>>
    /\ dirtyAtMut = <<>>
    /\ pendingWorld = <<>>
    /\ mutations = 0
    /\ objectWrites = 0
    /\ frameWrites = 0
    /\ gpuHung = FALSE
    /\ keyState = [down |-> FALSE, pressed |-> FALSE]
    /\ mIsWireframe = FALSE
    /\ sampledDown = FALSE

\* ------------------------------------------------------- scene building
\* World matrix BuildRenderItems stores in the k-th of m items: the shapes,
\* from the first cylinder on, are translated; the grid, registered last, keeps
\* the identity.
ItemWorld(k, m) ==
    IF k > 0 /\ k = m - 1 THEN Identity4x4 ELSE XMMatrixTranslation(k + 1)

\* The meshes of GeometryGenerator that the modelled items use, by the sizes of
\* their vertex and index arrays, in the order BuildShapeGeometry
\* concatenates them.
MeshOrder == <<"box", "grid", "sphere", "cylinder">>

MeshData == [box      |-> [Vertices |-> 24, Indices32 |-> 36],
             grid     |-> [Vertices |-> 30, Indices32 |-> 48],
             sphere   |-> [Vertices |-> 42, Indices32 |-> 60],
             cylinder |-> [Vertices |-> 54, Indices32 |-> 72]]

\* The offsets of BuildShapeGeometry: the sum of the sizes of the meshes
\* concatenated before position i.
RECURSIVE IndexOffset(_)
IndexOffset(i) ==
    IF i = 1 THEN 0 ELSE IndexOffset(i - 1) + MeshData[MeshOrder[i - 1]].Indices32

RECURSIVE VertexOffset(_)
VertexOffset(i) ==
    IF i = 1 THEN 0 ELSE VertexOffset(i - 1) + MeshData[MeshOrder[i - 1]].Vertices

\* geo->DrawArgs[name]: the submesh of a shape.
DrawArgs(name) ==
    LET i == CHOOSE j \in DOMAIN MeshOrder : MeshOrder[j] = name
    IN  [IndexCount |-> MeshData[name].Indices32,
         StartIndexLocation |-> IndexOffset(i),
         BaseVertexLocation |-> VertexOffset(i)]

\* Shape of the k-th of m items: cylinders first, the grid last.
ItemShape(k, m) == IF k > 0 /\ k = m - 1 THEN "grid" ELSE "cylinder"

\* A RenderItem as its default member initialisers leave it.
NewRenderItem == [World |-> Identity4x4,
                  NumFramesDirty |-> gNumFrameResources,
                  ObjCBIndex |-> -1,
                  IndexCount |-> 0,
                  StartIndexLocation |-> 0,
                  BaseVertexLocation |-> 0]

\* Mutant: the index is assigned without being advanced.
RECURSIVE RegisterItems_NoIncrement(_, _, _)
RegisterItems_NoIncrement(items, objCBIndex, m) ==
    IF Len(items) = m THEN items
    ELSE LET ritem == [NewRenderItem EXCEPT !.World = ItemWorld(Len(items), m),
                                            !.ObjCBIndex = objCBIndex]
         IN  RegisterItems_NoIncrement(Append(items, ritem), objCBIndex, m)

\* The registrations of BuildRenderItems: each item takes objCBIndex++ and is
\* pushed onto the list, until m items are registered.
RECURSIVE RegisterItems(_, _, _)
RegisterItems(items, objCBIndex, m) ==
    IF Len(items) = m THEN items
    ELSE LET submesh == DrawArgs(ItemShape(Len(items), m))
             ritem == [NewRenderItem EXCEPT
                          !.World = ItemWorld(Len(items), m),
                          !.ObjCBIndex = objCBIndex,
                          !.IndexCount = submesh.IndexCount,
                          !.StartIndexLocation = submesh.StartIndexLocation,
                          !.BaseVertexLocation = submesh.BaseVertexLocation]
         IN  RegisterItems(Append(items, ritem), objCBIndex + 1, m)

\* Mutant: the copy loop starts at the second item.
OpaqueRitems_SkipFirst(items) == [k \in 1..(Len(items) - 1) |-> k]

\* The pointers pushed by the loop over mAllRitems, in order: a pointer is the
\* position of its item in mAllRitems.
OpaqueRitems(items) == [k \in 1..Len(items) |-> k - 1]

BuildRenderItems ==
    /\ pc = "BuildRenderItems"
    /\ \E m \in 1..MaxItems :
          LET items == RegisterItems(<<>>, 0, m)
          IN  /\ mAllRitems' = items
              \* All the render items are opaque.
              /\ mOpaqueRitems' = OpaqueRitems(items)
              /\ sinceMut' = [k \in 1..m |-> 0]
              /\ dirtyAtMut' = [k \in 1..m |-> 0]
              /\ pendingWorld' = [k \in 1..m |-> items[k].World]
    /\ pc' = "BuildFrameResources"
    /\ UNCHANGED <<mFrameResources, mCurrFrameResource, mCurrFrameResourceIndex,
                   mPassCbvOffset, mCbvHeap, mCurrentFence, mFence, mCommandQueue,
                   mCommandList, eventHandle, ritemIt, frameCount, slotHist,
                   markerHist, mutations, objectWrites, frameWrites>>
    /\ UNCHANGED envVars

\* FrameResource(device, passCount, objectCount): two upload buffers of fixed
\* capacity and a fence value of 0.
NewFrameResource(passCount, objectCount) ==
    [Fence |-> 0,
     PassCB |-> [i \in 0..(passCount - 1) |-> GarbagePass],
     ObjectCB |-> [i \in 0..(objectCount - 1) |-> GarbageObject]]

\* Mutant: the object buffers are sized one element short of the item count.
RECURSIVE PushFrameResources_OneShort(_, _)
PushFrameResources_OneShort(frs, i) ==
    IF i < gNumFrameResources
    THEN PushFrameResources_OneShort(
             Append(frs, NewFrameResource(1, Len(mAllRitems) - 1)), i + 1)
    ELSE frs

RECURSIVE PushFrameResources(_, _)
PushFrameResources(frs, i) ==
    IF i < gNumFrameResources
    THEN PushFrameResources(Append(frs, NewFrameResource(1, Len(mAllRitems))), i + 1)
    ELSE frs

BuildFrameResources ==
    /\ pc = "BuildFrameResources"
    /\ mFrameResources' = PushFrameResources(mFrameResources, 0)
    /\ pc' = "BuildDescriptorHeaps"
    /\ UNCHANGED <<mAllRitems, mOpaqueRitems, mCurrFrameResource,
                   mCurrFrameResourceIndex, mPassCbvOffset, mCbvHeap, mCurrentFence,
                   mFence, mCommandQueue, mCommandList, eventHandle, ritemIt>>
    /\ UNCHANGED histVars
    /\ UNCHANGED envVars

\* ------------------------------------------------------ descriptor heap
NullView == [kind |-> "null", frame |-> -1, slot |-> -1]

\* Mutant: no descriptor is reserved for the pass views.
NumDescriptors_NoPass(objCount) == objCount * gNumFrameResources

\* numDescriptors of BuildDescriptorHeaps.
NumDescriptors(objCount) == (objCount + 1) * gNumFrameResources

\* Mutant: the offset skips the object views of one frame resource only.
PassCbvOffset_OneFrame(objCount) == objCount

\* mPassCbvOffset of BuildDescriptorHeaps.
PassCbvOffset(objCount) == objCount * gNumFrameResources

BuildDescriptorHeaps ==
    /\ pc = "BuildDescriptorHeaps"
    /\ LET objCount == Len(mOpaqueRitems)
       IN  /\ mPassCbvOffset' = PassCbvOffset(objCount)
           /\ mCbvHeap' = [h \in 0..(NumDescriptors(objCount) - 1) |-> NullView]
    /\ pc' = "BuildConstantBufferViews"
    /\ UNCHANGED <<mAllRitems, mOpaqueRitems, mFrameResources, mCurrFrameResource,
                   mCurrFrameResourceIndex, mCurrentFence, mFence, mCommandQueue,
                   mCommandList, eventHandle, ritemIt>>
    /\ UNCHANGED histVars
    /\ UNCHANGED envVars

\* Mutant: the object views are laid out slot-major.
ObjHeapIndex_SlotMajor(frameIndex, objCount, i) == i * gNumFrameResources + frameIndex

\* heapIndex of the view of slot i of frame frameIndex's object buffer.
ObjHeapIndex(frameIndex, objCount, i) == frameIndex * objCount + i

\* heapIndex of the view of frame frameIndex's pass buffer.
PassHeapIndex(passCbvOffset, frameIndex) == passCbvOffset + frameIndex

\* CreateConstantBufferView at a heap index: a handle past the end of the heap
\* writes no descriptor of the heap.
CreateConstantBufferView(heap, heapIndex, view) ==
    IF heapIndex \in DOMAIN heap THEN [heap EXCEPT ![heapIndex] = view] ELSE heap

\* The object views of frames frameIndex.. and slots i.. , in loop order.
RECURSIVE PublishObjectViews(_, _, _, _)
PublishObjectViews(heap, frameIndex, i, objCount) ==
    IF frameIndex >= gNumFrameResources THEN heap
    ELSE IF i >= objCount THEN PublishObjectViews(heap, frameIndex + 1, 0, objCount)
    ELSE PublishObjectViews(
             CreateConstantBufferView(heap, ObjHeapIndex(frameIndex, objCount, i),
                 [kind |-> "object", frame |-> frameIndex, slot |-> i]),
             frameIndex, i + 1, objCount)

RECURSIVE PublishPassViews(_, _, _)
PublishPassViews(heap, frameIndex, passCbvOffset) ==
    IF frameIndex >= gNumFrameResources THEN heap
    ELSE PublishPassViews(
             CreateConstantBufferView(heap, PassHeapIndex(passCbvOffset, frameIndex),
                 [kind |-> "pass", frame |-> frameIndex, slot |-> 0]),
             frameIndex + 1, passCbvOffset)

BuildConstantBufferViews ==
    /\ pc = "BuildConstantBufferViews"
    /\ LET objCount == Len(mOpaqueRitems)
       IN  mCbvHeap' = PublishPassViews(
                           PublishObjectViews(mCbvHeap, 0, 0, objCount),
                           0, mPassCbvOffset)
    /\ pc' = "FlushCommandQueue"
    /\ UNCHANGED <<mAllRitems, mOpaqueRitems, mFrameResources, mCurrFrameResource,
                   mCurrFrameResourceIndex, mPassCbvOffset, mCurrentFence, mFence,
                   mCommandQueue, mCommandList, eventHandle, ritemIt>>
    /\ UNCHANGED histVars
    /\ UNCHANGED envVars

\* The end of Initialize: the initialisation commands are executed and
\* FlushCommandQueue issues a fence value and waits until the GPU reaches it.
FlushCommandQueue ==
    /\ pc = "FlushCommandQueue"
    /\ mCurrentFence' = mCurrentFence + 1
    /\ mFence' = mCurrentFence + 1
    /\ pc' = "Idle"
    /\ UNCHANGED <<mAllRitems, mOpaqueRitems, mFrameResources, mCurrFrameResource,
                   mCurrFrameResourceIndex, mPassCbvOffset, mCbvHeap, mCommandQueue,
                   mCommandList, eventHandle, ritemIt>>
    /\ UNCHANGED histVars
    /\ UNCHANGED envVars

\* ----------------------------------------------------------------- Update
\* Mutant: the index cycles downwards.
NextFrameResourceIndex_Backwards(i) ==
    (i + gNumFrameResources - 1) % gNumFrameResources

\* Mutant: the index is not advanced.
NextFrameResourceIndex_Stuck(i) == i

\* Mutant: the cycle is one frame resource short.
NextFrameResourceIndex_ShortCycle(i) == (i + 1) % (gNumFrameResources - 1)

\* The cycle through the circular frame resource array.
NextFrameResourceIndex(i) == (i + 1) % gNumFrameResources

\* Mutant: the comparison lets a frame resource through one marker early.
MustWait_OneEarly(fence, completedValue) == fence # 0 /\ completedValue + 1 < fence

\* Mutant: the fence test is dropped, Update never waits.
MustWait_Never(fence, completedValue) == FALSE

\* The test that sends Update into the fence wait.
MustWait(fence, completedValue) == fence # 0 /\ completedValue < fence

\* UploadBuffer::CopyData: the element at elementIndex is overwritten.
CopyData(buffer, elementIndex, data) ==
    IF elementIndex \in DOMAIN buffer
    THEN [buffer EXCEPT ![elementIndex] = data]
    ELSE buffer

\* GetAsyncKeyState: the most significant bit of the 16-bit result is set when
\* the key is down, the least significant bit when it was pressed since the
\* previous query.
GetAsyncKeyState(key) ==
    (IF key.down THEN 32768 ELSE 0) + (IF key.pressed THEN 1 ELSE 0)

\* Mutant: the least significant bit is tested.
KeyIsDown_LowBit(value) == value % 2 = 1

\* The test of OnKeyboardInput: value & 0x8000.
KeyIsDown(value) == (value \div 32768) % 2 = 1

\* Update up to the fence test: the keyboard is queried and the next frame
\* resource becomes current.
UpdateBegin ==
    /\ pc = "Idle"
    /\ frameCount < MaxFrames
    /\ LET next == NextFrameResourceIndex(mCurrFrameResourceIndex)
       IN  /\ mCurrFrameResourceIndex' = next
           /\ mCurrFrameResource' = next
           /\ slotHist' = Append(slotHist, next)
           /\ pc' = IF MustWait(FrameRes(next).Fence, mFence)
                    THEN "SetEventOnCompletion"
                    ELSE "UpdateObjectCBs"
    /\ ritemIt' = 0
    /\ frameCount' = frameCount + 1
    /\ UNCHANGED <<mAllRitems, mOpaqueRitems, mFrameResources, mPassCbvOffset,
                   mCbvHeap, mCurrentFence, mFence, mCommandQueue, mCommandList,
                   eventHandle, markerHist, sinceMut, dirtyAtMut, pendingWorld,
                   mutations, objectWrites>>
    /\ frameWrites' = 0
    \* OnKeyboardInput
    /\ mIsWireframe' = KeyIsDown(GetAsyncKeyState(keyState))
    /\ keyState' = [keyState EXCEPT !.pressed = FALSE]
    /\ sampledDown' = keyState.down
    /\ UNCHANGED gpuHung

\* Mutant: the event is registered for the marker issued one frame earlier.
AwaitedFence_Previous(fence, currentFence) == fence - 1

\* Mutant: the event is registered for the fence value Draw will issue next.
AwaitedFence_NextValue(fence, currentFence) == currentFence + 1

\* The fence value Update registers the completion event for: the Fence of the
\* current frame resource.
AwaitedFence(fence, currentFence) == fence

\* mFence->SetEventOnCompletion(fence, eventHandle): the event is set at once
\* when the fence has already reached the value.
SetEventOnCompletion ==
    /\ pc = "SetEventOnCompletion"
    /\ LET fence == AwaitedFence(FrameRes(mCurrFrameResource).Fence, mCurrentFence)
       IN  eventHandle' = [armed |-> TRUE, value |-> fence,
                           signaled |-> mFence >= fence]
    /\ pc' = "WaitForSingleObject"
    /\ UNCHANGED <<mFence, mCommandQueue>>
    /\ UNCHANGED cpuVars
    /\ UNCHANGED histVars
    /\ UNCHANGED envVars

\* WaitForSingleObject(eventHandle, INFINITE) returns once the event is set;
\* the handle is closed.
WaitForSingleObject ==
    /\ pc = "WaitForSingleObject"
    /\ eventHandle.signaled
    /\ eventHandle' = NoEvent
    /\ pc' = "UpdateObjectCBs"
    /\ UNCHANGED <<mFence, mCommandQueue>>
    /\ UNCHANGED cpuVars
    /\ UNCHANGED histVars
    /\ UNCHANGED envVars

\* Mutant: every item is pushed in every frame.
NeedsUpdate_Always(numFramesDirty) == TRUE

\* Mutant: the counter is treated as a flag, only a freshly dirtied item is
\* pushed.
NeedsUpdate_FreshOnly(numFramesDirty) == numFramesDirty = gNumFrameResources

\* Mutant: the push of the last dirty frame is skipped.
NeedsUpdate_OffByOne(numFramesDirty) == numFramesDirty > 1

\* Whether UpdateObjectCBs pushes an item with this counter.
NeedsUpdate(numFramesDirty) == numFramesDirty > 0

\* The ObjectConstants built from a world matrix.
ObjectConstants(world) == [World |-> XMMatrixTranspose(world)]

\* Mutant: the decrement is missing.
DirtyAfterPush_NoDecrement(numFramesDirty) == numFramesDirty

\* Mutant: the counter is cleared like a flag after one push.
DirtyAfterPush_Clear(numFramesDirty) == 0

\* The counter after a push.
DirtyAfterPush(numFramesDirty) == numFramesDirty - 1

\* Mutant: the record is copied to element 0, as the pass record is.
ElementIndex_Zero(e) == 0

\* The elementIndex UpdateObjectCBs passes to CopyData for a render item.
ElementIndex(e) == e.ObjCBIndex

\* One iteration of UpdateObjectCBs' loop over mAllRitems; the last one
\* returns to Update, which goes on to UpdateMainPassCB.
UpdateObjectCBs ==
    /\ pc = "UpdateObjectCBs"
    /\ ritemIt < Len(mAllRitems)
    /\ LET e == Ritem(ritemIt)
           fr == FrameRes(mCurrFrameResource)
       IN  IF NeedsUpdate(e.NumFramesDirty)
           THEN /\ mFrameResources' =
                      [mFrameResources EXCEPT ![mCurrFrameResource + 1].ObjectCB =
                          CopyData(fr.ObjectCB, ElementIndex(e), ObjectConstants(e.World))]
                /\ mAllRitems' =
                      [mAllRitems EXCEPT ![ritemIt + 1].NumFramesDirty =
                          DirtyAfterPush(e.NumFramesDirty)]
                /\ objectWrites' = objectWrites + 1
                /\ frameWrites' = frameWrites + 1
           ELSE UNCHANGED <<mFrameResources, mAllRitems, objectWrites, frameWrites>>
    /\ sinceMut' = [sinceMut EXCEPT ![ritemIt + 1] =
                        Min(gNumFrameResources, sinceMut[ritemIt + 1] + 1)]
    /\ ritemIt' = ritemIt + 1
    /\ pc' = IF ritemIt + 1 < Len(mAllRitems) THEN "UpdateObjectCBs"
             ELSE "UpdateMainPassCB"
    /\ UNCHANGED <<mOpaqueRitems, mCurrFrameResource, mCurrFrameResourceIndex,
                   mPassCbvOffset, mCbvHeap, mCurrentFence, mFence, mCommandQueue,
                   mCommandList, eventHandle, frameCount, slotHist, markerHist,
                   dirtyAtMut, pendingWorld, mutations>>
    /\ UNCHANGED envVars

\* Mutant: the timing field is not refreshed, the record stays as constructed.
MainPassCB_NotRefreshed == [TotalTime |-> 0]

\* The PassConstants of the frame: the timer's total time stands for the
\* camera and timing fields, which change from frame to frame.
MainPassCB == [TotalTime |-> frameCount]

UpdateMainPassCB ==
    /\ pc = "UpdateMainPassCB"
    /\ LET fr == FrameRes(mCurrFrameResource)
       IN  mFrameResources' =
               [mFrameResources EXCEPT ![mCurrFrameResource + 1].PassCB =
                   CopyData(fr.PassCB, 0, MainPassCB)]
    /\ pc' = "Draw"
    /\ UNCHANGED <<mAllRitems, mOpaqueRitems, mCurrFrameResource,
                   mCurrFrameResourceIndex, mPassCbvOffset, mCbvHeap, mCurrentFence,
                   mFence, mCommandQueue, mCommandList, eventHandle, ritemIt>>
    /\ UNCHANGED histVars
    /\ UNCHANGED envVars

\* ------------------------------------------------------------------- Draw
\* Mutant: the object views of the next frame resource are bound.
CbvIndex_NextFrame(frameIndex, objCount, objCBIndex) ==
    ((frameIndex + 1) % gNumFrameResources) * objCount + objCBIndex

\* cbvIndex that DrawRenderItems binds for a render item.
CbvIndex(frameIndex, objCount, objCBIndex) == frameIndex * objCount + objCBIndex

\* Mutant: the pass view of the frame resource used one frame earlier is bound.
PassCbvIndex_PrevFrame(passCbvOffset, frameIndex) ==
    passCbvOffset + ((frameIndex + gNumFrameResources - 1) % gNumFrameResources)

\* passCbvIndex that Draw binds.
PassCbvIndex(passCbvOffset, frameIndex) == passCbvOffset + frameIndex

\* Mutant: the start index and the base vertex are passed in each other's
\* place.
DrawIndexedInstanced_ArgsSwapped(ri) ==
    [IndexCountPerInstance |-> ri.IndexCount,
     InstanceCount |-> 1,
     StartIndexLocation |-> ri.BaseVertexLocation,
     BaseVertexLocation |-> ri.StartIndexLocation,
     StartInstanceLocation |-> 0]

\* The arguments of the DrawIndexedInstanced call for a render item.
DrawIndexedInstanced(ri) ==
    [IndexCountPerInstance |-> ri.IndexCount,
     InstanceCount |-> 1,
     StartIndexLocation |-> ri.StartIndexLocation,
     BaseVertexLocation |-> ri.BaseVertexLocation,
     StartInstanceLocation |-> 0]

\* The draw calls DrawRenderItems records for ritems, in order.
DrawRenderItems(ritems) ==
    [i \in 1..Len(ritems) |->
        [cbvIndex |-> CbvIndex(mCurrFrameResourceIndex, Len(mOpaqueRitems),
                               Ritem(ritems[i]).ObjCBIndex),
         ritem |-> ritems[i],
         call |-> DrawIndexedInstanced(Ritem(ritems[i]))]]

\* The pipeline state Draw resets the command list with.
PipelineState(isWireframe) ==
    IF isWireframe THEN "opaque_wireframe" ELSE "opaque"

\* Draw up to Close: the current frame resource's allocator is reset and the
\* frame's commands are recorded.
Draw ==
    /\ pc = "Draw"
    /\ mCurrFrameResource # NullPtr
    /\ mCommandList' = [cmdListAlloc |-> mCurrFrameResource,
                        pso |-> PipelineState(mIsWireframe),
                        passCbvIndex |-> PassCbvIndex(mPassCbvOffset,
                                                      mCurrFrameResourceIndex),
                        draws |-> DrawRenderItems(mOpaqueRitems)]
    /\ pc' = "ExecuteCommandLists"
    /\ UNCHANGED <<mAllRitems, mOpaqueRitems, mFrameResources, mCurrFrameResource,
                   mCurrFrameResourceIndex, mPassCbvOffset, mCbvHeap, mCurrentFence,
                   mFence, mCommandQueue, eventHandle, ritemIt>>
    /\ UNCHANGED histVars
    /\ UNCHANGED envVars

\* mCommandQueue->ExecuteCommandLists: the frame's commands join the queue.
ExecuteCommandLists ==
    /\ pc = "ExecuteCommandLists"
    /\ mCommandQueue' = Append(mCommandQueue,
                               [type |-> "Execute", cmds |-> mCommandList, value |-> 0])
    /\ pc' = "AdvanceFence"
    /\ UNCHANGED <<mFence, eventHandle>>
    /\ UNCHANGED cpuVars
    /\ UNCHANGED histVars
    /\ UNCHANGED envVars

\* Mutant: the fence value is not advanced.
NextFenceValue_NoIncrement(currentFence) == currentFence

\* The fence value issued after currentFence.
NextFenceValue(currentFence) == currentFence + 1

\* Mutant: post-increment, the frame resource keeps the previous value.
StampedFence_PostIncrement(currentFence) == currentFence

\* The value of the expression ++mCurrentFence, stored in the frame resource.
StampedFence(currentFence) == NextFenceValue(currentFence)

\* mCurrFrameResource->Fence = ++mCurrentFence.
AdvanceFence ==
    /\ pc = "AdvanceFence"
    /\ mCurrentFence' = NextFenceValue(mCurrentFence)
    /\ mFrameResources' = [mFrameResources EXCEPT ![mCurrFrameResource + 1].Fence =
                               StampedFence(mCurrentFence)]
    /\ pc' = "Signal"
    /\ UNCHANGED <<mAllRitems, mOpaqueRitems, mCurrFrameResource,
                   mCurrFrameResourceIndex, mPassCbvOffset, mCbvHeap, mFence,
                   mCommandQueue, mCommandList, eventHandle, ritemIt>>
    /\ UNCHANGED histVars
    /\ UNCHANGED envVars

\* Mutant: the fence point is set one value ahead of the stamped one.
SignalValue_Ahead(currentFence) == currentFence + 1

\* The value Draw passes to Signal.
SignalValue(currentFence) == currentFence

\* mCommandQueue->Signal(mFence, mCurrentFence): the fence point joins the queue.
Signal ==
    /\ pc = "Signal"
    /\ mCommandQueue' = Append(mCommandQueue,
                               [type |-> "Signal", cmds |-> NoCommands,
                                value |-> SignalValue(mCurrentFence)])
    /\ markerHist' = Append(markerHist, SignalValue(mCurrentFence))
    /\ pc' = "Idle"
    /\ UNCHANGED <<mFence, eventHandle>>
    /\ UNCHANGED cpuVars
    /\ UNCHANGED <<frameCount, slotHist, sinceMut, dirtyAtMut, pendingWorld, mutations,
                   objectWrites, frameWrites>>
    /\ UNCHANGED envVars

\* -------------------------------------------------------------------- GPU
\* The GPU finishes the command lists at the head of the queue.
GpuExecute ==
    /\ ~gpuHung
    /\ mCommandQueue # <<>>
    /\ Head(mCommandQueue).type = "Execute"
    /\ mCommandQueue' = Tail(mCommandQueue)
    /\ UNCHANGED <<pc, mFence, eventHandle>>
    /\ UNCHANGED cpuVars
    /\ UNCHANGED histVars
    /\ UNCHANGED envVars

\* The GPU reaches a fence point: the completed value is set, and an event
\* registered for a value it has reached is set.
GpuSignal ==
    /\ ~gpuHung
    /\ mCommandQueue # <<>>
    /\ Head(mCommandQueue).type = "Signal"
    /\ LET v == Head(mCommandQueue).value
       IN  /\ mFence' = v
           /\ eventHandle' = IF eventHandle.armed /\ v >= eventHandle.value
                             THEN [eventHandle EXCEPT !.signaled = TRUE]
                             ELSE eventHandle
    /\ mCommandQueue' = Tail(mCommandQueue)
    /\ UNCHANGED pc
    /\ UNCHANGED cpuVars
    /\ UNCHANGED histVars
    /\ UNCHANGED envVars

\* ------------------------------------------------------------ environment
\* A transform is modified between two frames; as RenderItem documents, the
\* modification sets NumFramesDirty = gNumFrameResources.
SetWorld ==
    /\ pc = "Idle"
    /\ mutations < MaxMutations
    /\ \E k \in 1..Len(mAllRitems), w \in Worlds :
          /\ w # mAllRitems[k].World
          /\ mAllRitems' = [mAllRitems EXCEPT ![k].World = w,
                                              ![k].NumFramesDirty = gNumFrameResources]
          /\ sinceMut' = [sinceMut EXCEPT ![k] = 0]
          /\ dirtyAtMut' = [dirtyAtMut EXCEPT ![k] = mAllRitems[k].NumFramesDirty]
          /\ pendingWorld' = [pendingWorld EXCEPT ![k] = mAllRitems[k].World]
    /\ mutations' = mutations + 1
    /\ UNCHANGED <<pc, mOpaqueRitems, mFrameResources, mCurrFrameResource,
                   mCurrFrameResourceIndex, mPassCbvOffset, mCbvHeap, mCurrentFence,
                   mFence, mCommandQueue, mCommandList, eventHandle, ritemIt,
                   frameCount, slotHist, markerHist, objectWrites, frameWrites>>
    /\ UNCHANGED envVars

\* The '1' key goes down.
KeyPress ==
    /\ ~keyState.down
    /\ keyState' = [down |-> TRUE, pressed |-> TRUE]
    /\ UNCHANGED <<pc, mFence, mCommandQueue, eventHandle, gpuHung, mIsWireframe,
                   sampledDown>>
    /\ UNCHANGED cpuVars
    /\ UNCHANGED histVars

\* The '1' key is released.
KeyRelease ==
    /\ keyState.down
    /\ keyState' = [keyState EXCEPT !.down = FALSE]
    /\ UNCHANGED <<pc, mFence, mCommandQueue, eventHandle, gpuHung, mIsWireframe,
                   sampledDown>>
    /\ UNCHANGED cpuVars
    /\ UNCHANGED histVars

\* The device hangs: from now on the GPU finishes no work and reaches no fence
\* point.
DeviceHang ==
    /\ ~gpuHung
    /\ pc \notin {"BuildRenderItems", "BuildFrameResources", "BuildDescriptorHeaps",
                  "BuildConstantBufferViews", "FlushCommandQueue", "Terminated"}
    /\ gpuHung' = TRUE
    /\ UNCHANGED <<pc, mFence, mCommandQueue, eventHandle>>
    /\ UNCHANGED cpuVars
    /\ UNCHANGED histVars
    /\ UNCHANGED keyVars

\* ThrowIfFailed: a call on the failed device returns a failure code, the
\* DxException leaves Update or Draw and Run, and WinMain's handler reports
\* it and returns.
ThrowIfFailed ==
    /\ gpuHung
    /\ pc \in {"SetEventOnCompletion", "Draw"}
    /\ pc' = "Terminated"
    /\ UNCHANGED <<mFence, mCommandQueue, eventHandle>>
    /\ UNCHANGED cpuVars
    /\ UNCHANGED histVars
    /\ UNCHANGED envVars

\* ------------------------------------------------------------------- Spec
Next ==
    \/ BuildRenderItems
    \/ BuildFrameResources
    \/ BuildDescriptorHeaps
    \/ BuildConstantBufferViews
    \/ FlushCommandQueue
    \/ UpdateBegin
    \/ SetEventOnCompletion
    \/ WaitForSingleObject
    \/ UpdateObjectCBs
    \/ UpdateMainPassCB
    \/ Draw
    \/ ExecuteCommandLists
    \/ AdvanceFence
    \/ Signal
    \/ GpuExecute
    \/ GpuSignal
    \/ SetWorld

Spec == Init /\ [][Next]_vars

\* The steps of the CPU thread in the message loop: Update, then Draw.
CpuStep ==
    \/ UpdateBegin
    \/ SetEventOnCompletion
    \/ WaitForSingleObject
    \/ UpdateObjectCBs
    \/ UpdateMainPassCB
    \/ Draw
    \/ ExecuteCommandLists
    \/ AdvanceFence
    \/ Signal

\* The program with a live GPU: the CPU thread runs whenever it is not blocked,
\* and the GPU eventually finishes the work at the head of its queue.
FairSpec ==
    /\ Spec
    /\ WF_vars(CpuStep)
    /\ WF_vars(GpuExecute)
    /\ WF_vars(GpuSignal)

\* The steps of Initialize.
InitStep ==
    \/ BuildRenderItems
    \/ BuildFrameResources
    \/ BuildDescriptorHeaps
    \/ BuildConstantBufferViews
    \/ FlushCommandQueue

\* The program as built, a static scene, with a user who presses and releases
\* the '1' key at any moment.
KeyNext ==
    \/ InitStep
    \/ CpuStep
    \/ GpuExecute
    \/ GpuSignal
    \/ KeyPress
    \/ KeyRelease

KeySpec == Init /\ [][KeyNext]_vars

\* The program on a device that may hang at any moment of the message loop.
HangNext ==
    \/ Next
    \/ DeviceHang
    \/ ThrowIfFailed

HangSpec ==
    /\ Init
    /\ [][HangNext]_vars
    /\ WF_vars(CpuStep)
    /\ WF_vars(GpuExecute)
    /\ WF_vars(GpuSignal)

\* ================================================================ claims
\* Positions of the CPU thread inside Initialize.
InitPcs == {"BuildRenderItems", "BuildFrameResources", "BuildDescriptorHeaps",
            "BuildConstantBufferViews"}

\* Positions at which Update writes the current frame resource's buffers.
WritingPcs == {"UpdateObjectCBs", "UpdateMainPassCB"}

\* Positions inside the fence wait of Update.
WaitPcs == {"SetEventOnCompletion", "WaitForSingleObject"}

\* The view a descriptor index resolves to.
ViewAt(h) == IF h \in DOMAIN mCbvHeap THEN mCbvHeap[h] ELSE NullView

\* The frame resources whose buffers a recorded command list reads.
FramesRead(cmds) ==
    {ViewAt(cmds.passCbvIndex).frame}
        \cup {ViewAt(cmds.draws[i].cbvIndex).frame : i \in DOMAIN cmds.draws}

\* The frame resources read by submitted work the GPU has not finished.
FramesInFlight ==
    UNION {FramesRead(mCommandQueue[i].cmds) :
              i \in {j \in DOMAIN mCommandQueue : mCommandQueue[j].type = "Execute"}}

\* C1: No premature reuse. Whenever Update has finished its advance step and
\* writes the selected frame resource, that frame resource's Fence is 0 or at
\* most the fence's completed value.
C1_NoPrematureReuse ==
    pc \in WritingPcs =>
        LET fence == FrameRes(mCurrFrameResource).Fence
        IN  fence = 0 \/ fence <= mFence

\* Update writes a frame resource that was submitted before, while later
\* frames are still in the queue.
C1_Witness ==
    /\ pc \in WritingPcs
    /\ FrameRes(mCurrFrameResource).Fence # 0
    /\ mCommandQueue # <<>>

\* C2: Exclusive ownership without locks. While Update writes the object or
\* pass buffer of a frame resource, no submitted and unfinished work of the GPU
\* reads that frame resource.
C2_ExclusiveOwnership ==
    pc \in WritingPcs => mCurrFrameResource \notin FramesInFlight

\* Update writes one frame resource while the GPU still reads two others.
C2_Witness ==
    /\ pc \in WritingPcs
    /\ Cardinality(FramesInFlight) = gNumFrameResources - 1
    /\ frameCount > gNumFrameResources

\* The object record frame resource f holds for the render item at position k.
ArenaRecord(f, k) == FrameRes(f).ObjectCB[Ritem(k).ObjCBIndex]

Frames == 0..(gNumFrameResources - 1)

Items == 0..(Len(mAllRitems) - 1)

\* C3 (as amended): Dirty propagation completeness. After exactly N produced
\* frames following the creation or the last mutation of an item, the record at
\* its ObjCBIndex in each of the N object buffers holds the transpose of the
\* item's latest transform, and its NumFramesDirty is 0.
C3_DirtyPropagation ==
    pc \notin InitPcs =>
        \A k \in Items :
            sinceMut[k + 1] = gNumFrameResources =>
                /\ Ritem(k).NumFramesDirty = 0
                /\ \A f \in Frames :
                      ArenaRecord(f, k).World = XMMatrixTranspose(Ritem(k).World)

\* An item with a translation was mutated and then pushed in N frames.
C3_Witness ==
    /\ pc \notin InitPcs
    /\ mutations > 0
    /\ \E k \in Items :
          /\ sinceMut[k + 1] = gNumFrameResources
          /\ Ritem(k).World # Identity4x4
          /\ Ritem(k).World # ItemWorld(k, Len(mAllRitems))

\* C3 as stated: after exactly N produced frames, each record equals the item's
\* latest transform itself, and NumFramesDirty is 0.
C3_Original ==
    pc \notin InitPcs =>
        \A k \in Items :
            sinceMut[k + 1] = gNumFrameResources =>
                /\ Ritem(k).NumFramesDirty = 0
                /\ \A f \in Frames : ArenaRecord(f, k).World = Ritem(k).World

\* The items whose transform a step modifies.
Mutated(k) == mAllRitems'[k + 1].World # mAllRitems[k + 1].World

\* C4, state part (as amended): Idempotent re-dirtying. Mutating an item whose
\* NumFramesDirty is above 0 leaves it equal to N, never above; after the next N
\* produced frames every object buffer holds the transpose of the latest
\* transform and not the record of the transform that was pending.
C4_RedirtyState ==
    pc \notin InitPcs =>
        \A k \in Items :
            /\ Ritem(k).NumFramesDirty <= gNumFrameResources
            /\ (dirtyAtMut[k + 1] > 0 /\ sinceMut[k + 1] = gNumFrameResources) =>
                  \A f \in Frames :
                      /\ ArenaRecord(f, k).World = XMMatrixTranspose(Ritem(k).World)
                      /\ ArenaRecord(f, k).World # XMMatrixTranspose(pendingWorld[k + 1])

C4_RedirtyStep ==
    pc \notin InitPcs =>
        \A k \in Items :
            (Mutated(k) /\ Ritem(k).NumFramesDirty > 0) =>
                mAllRitems'[k + 1].NumFramesDirty = gNumFrameResources

\* C4 (as amended): the state part in every state, the step part at every
\* mutation: the counter is reset to N and the N buffers converge to the
\* transposed latest transform.
C4_IdempotentRedirty == [](C4_RedirtyState) /\ [][C4_RedirtyStep]_vars

\* An item was mutated while its counter was above 0 and below N, so that
\* some object buffer held the record of the pending transform, and N frames
\* later the pushes are done.
C4_Witness ==
    /\ pc \notin InitPcs
    /\ mutations > 0
    /\ \E k \in Items :
          /\ dirtyAtMut[k + 1] \in 1..(gNumFrameResources - 1)
          /\ sinceMut[k + 1] = gNumFrameResources
          /\ pendingWorld[k + 1] # Ritem(k).World
          /\ Ritem(k).World # Identity4x4

\* C4 as stated: after the next N produced frames every object buffer holds the
\* latest transform itself.
C4_Original ==
    pc \notin InitPcs =>
        \A k \in Items :
            /\ Ritem(k).NumFramesDirty <= gNumFrameResources
            /\ (dirtyAtMut[k + 1] > 0 /\ sinceMut[k + 1] = gNumFrameResources) =>
                  \A f \in Frames : ArenaRecord(f, k).World = Ritem(k).World

\* Positions of the CPU thread from the end of the fence wait to the stamping
\* of the frame resource's Fence.
ProducingPcs == {"UpdateObjectCBs", "UpdateMainPassCB", "Draw",
                 "ExecuteCommandLists", "AdvanceFence"}

\* C5: Priming. The first N calls of Update never enter the fence wait, because
\* the frame resource each of them selects still has Fence = 0, whatever the
\* completed value of the fence is.
C5_Priming ==
    /\ pc \in WaitPcs => frameCount > gNumFrameResources
    /\ (frameCount \in 1..gNumFrameResources /\ pc \in ProducingPcs) =>
           FrameRes(mCurrFrameResource).Fence = 0

\* The Nth Update writes while the GPU has finished none of the frames
\* submitted before it.
C5_Witness ==
    /\ frameCount = gNumFrameResources
    /\ pc \in WritingPcs
    /\ Len(markerHist) = gNumFrameResources - 1
    /\ mFence < markerHist[1]

\* C6: Blocking on the (N+1)th frame. With N frames submitted and none of them
\* reported complete, the (N+1)th Update enters the fence wait, and it writes no
\* buffer before the completed value has reached the 1st frame's marker.
C6_BlockState ==
    (frameCount = gNumFrameResources + 1 /\ pc \in ProducingPcs) =>
        mFence >= markerHist[1]

C6_BlockStep ==
    (/\ pc = "Idle"
     /\ frameCount = gNumFrameResources
     /\ frameCount' = gNumFrameResources + 1
     /\ mFence < markerHist[1])
        => pc' = "SetEventOnCompletion"

\* C6: the (N+1)th Update blocks (step part) and writes nothing before the 1st
\* frame's marker is complete (state part).
C6_BlocksOnFourthFrame == [](C6_BlockState) /\ [][C6_BlockStep]_vars

\* The (N+1)th Update sits in the wait: N frames are submitted and the GPU has
\* reported none of them.
C6_Witness ==
    /\ frameCount = gNumFrameResources + 1
    /\ pc = "WaitForSingleObject"
    /\ ~eventHandle.signaled
    /\ Len(markerHist) = gNumFrameResources
    /\ mFence < markerHist[1]

\* The (frame, kind, slot) triples that have a view, and the heap index the
\* program computes for each.
Triples ==
    {<<f, "object", i>> : f \in Frames, i \in 0..(Len(mOpaqueRitems) - 1)}
        \cup {<<f, "pass", 0>> : f \in Frames}

HeapIndexOf(t) ==
    IF t[2] = "object"
    THEN ObjHeapIndex(t[1], Len(mOpaqueRitems), t[3])
    ELSE PassHeapIndex(mPassCbvOffset, t[1])

\* C7: Offset injectivity. The heap indices computed for distinct
\* (frame, kind, slot) triples are distinct, for every item count.
C7_OffsetInjective ==
    pc \notin InitPcs =>
        LET index == [t \in Triples |-> HeapIndexOf(t)]
        IN  \A t1, t2 \in DOMAIN index : t1 # t2 => index[t1] # index[t2]

\* The views are published for a scene of at least two items.
C7_Witness ==
    /\ pc \notin InitPcs
    /\ Len(mOpaqueRitems) >= 2
    /\ \A t \in Triples : ViewAt(HeapIndexOf(t)).kind = t[2]

\* The views a recorded command list binds are those of frame resource f.
BindsFrame(cmds, f) ==
    /\ ViewAt(cmds.passCbvIndex) = [kind |-> "pass", frame |-> f, slot |-> 0]
    /\ cmds.passCbvIndex = gNumFrameResources * Len(mOpaqueRitems) + f
    /\ \A i \in DOMAIN cmds.draws :
          LET s == Ritem(cmds.draws[i].ritem).ObjCBIndex
          IN  /\ ViewAt(cmds.draws[i].cbvIndex) =
                     [kind |-> "object", frame |-> f, slot |-> s]
              /\ cmds.draws[i].cbvIndex = f * Len(mOpaqueRitems) + s

\* C8: Publish/bind agreement. The index Draw and DrawRenderItems bind while
\* frame f is active is the index at which BuildConstantBufferViews published
\* the view of that slot of frame f: f*M + s for objects, N*M + f for the pass.
C8_PublishBindAgree ==
    /\ pc \notin InitPcs =>
          \A t \in Triples :
              ViewAt(IF t[2] = "object"
                     THEN t[1] * Len(mOpaqueRitems) + t[3]
                     ELSE gNumFrameResources * Len(mOpaqueRitems) + t[1])
                  = [kind |-> t[2], frame |-> t[1], slot |-> t[3]]
    /\ pc \in {"ExecuteCommandLists", "AdvanceFence", "Signal"} =>
          /\ mCommandList.cmdListAlloc = mCurrFrameResourceIndex
          /\ Len(mCommandList.draws) = Len(mAllRitems)
          /\ BindsFrame(mCommandList, mCurrFrameResourceIndex)

\* A frame of two items is recorded with the last frame resource active.
C8_Witness ==
    /\ pc = "ExecuteCommandLists"
    /\ mCurrFrameResourceIndex = gNumFrameResources - 1
    /\ Len(mCommandList.draws) = 2

\* C9: Round-robin over exactly N slots. N frame resources exist once
\* BuildFrameResources has run and the count never changes; each Update sets the
\* index to (previous + 1) mod N, so it stays in [0, N) and a frame resource is
\* selected again exactly every N frames.
C9_RoundRobin ==
    /\ pc \notin {"BuildRenderItems", "BuildFrameResources"} =>
          Len(mFrameResources) = gNumFrameResources
    /\ mCurrFrameResourceIndex \in 0..(gNumFrameResources - 1)
    /\ Len(slotHist) = frameCount
    /\ \A i \in DOMAIN slotHist :
          /\ slotHist[i] = ((IF i = 1 THEN 0 ELSE slotHist[i - 1]) + 1) % gNumFrameResources
          /\ \A j \in DOMAIN slotHist :
                (slotHist[i] = slotHist[j]) <=> ((j - i) % gNumFrameResources = 0)
    /\ frameCount > 0 => /\ mCurrFrameResourceIndex = slotHist[frameCount]
                         /\ mCurrFrameResource = mCurrFrameResourceIndex

\* A frame resource is selected for the second time.
C9_Witness ==
    /\ frameCount = gNumFrameResources + 1
    /\ slotHist[frameCount] = slotHist[1]

\* The Fence of every frame resource, in order.
Fences == [f \in DOMAIN mFrameResources |-> mFrameResources[f].Fence]

\* C10: Strictly increasing markers. Every Draw stamps the current frame
\* resource with mCurrentFence incremented by one, a value above every marker
\* issued before; the issued markers increase strictly, and so does a frame
\* resource's Fence each time it is stamped.
C10_MarkerState ==
    /\ \A i, j \in DOMAIN markerHist : i < j => markerHist[i] < markerHist[j]
    /\ \A f \in DOMAIN mFrameResources : mFrameResources[f].Fence <= mCurrentFence

C10_MarkerStep ==
    (pc = "AdvanceFence" /\ pc' = "Signal") =>
        LET v == mFrameResources'[mCurrFrameResource + 1].Fence
        IN  /\ mCurrentFence' = mCurrentFence + 1
            /\ v = mCurrentFence'
            /\ \A i \in DOMAIN markerHist : v > markerHist[i]
            /\ \A f \in DOMAIN mFrameResources : v > mFrameResources[f].Fence
            /\ \A f \in DOMAIN mFrameResources :
                  f # mCurrFrameResource + 1 =>
                      mFrameResources'[f].Fence = mFrameResources[f].Fence

\* C10: issued markers increase strictly (state part) and every stamping step
\* stores a value above all earlier ones (step part).
C10_MarkersIncrease == [](C10_MarkerState) /\ [][C10_MarkerStep]_vars

\* A frame resource that was stamped before has been stamped again.
C10_Witness ==
    /\ pc = "Signal"
    /\ frameCount > gNumFrameResources
    /\ FrameRes(mCurrFrameResource).Fence = mCurrentFence
    /\ FrameRes(mCurrFrameResource).Fence > markerHist[1]

\* The frames handed to the command queue whose marker the fence has not
\* reached: those with an issued marker above the completed value, and the one
\* whose command list is executed and whose marker Draw is about to signal.
FramesAhead ==
    Cardinality({i \in DOMAIN markerHist : markerHist[i] > mFence})
        + (IF pc \in {"AdvanceFence", "Signal"} THEN 1 ELSE 0)

\* C11 (as amended): Backpressure bound. In every reachable state at most N
\* submitted frames have a marker the GPU has not reached, and at most N-1
\* while the producer, past the fence wait, writes and records the next frame.
C11_Backpressure ==
    /\ FramesAhead <= gNumFrameResources
    /\ pc \in (WritingPcs \cup {"Draw", "ExecuteCommandLists"}) =>
           FramesAhead <= gNumFrameResources - 1

\* After the fence wait of a later frame, N submitted frames are unreached
\* again.
C11_Witness ==
    /\ frameCount > gNumFrameResources
    /\ pc = "Idle"
    /\ FramesAhead = gNumFrameResources

\* C11 as stated: at most N-1 submitted frames have an unreached marker.
C11_Original == FramesAhead <= gNumFrameResources - 1

\* Positions of the CPU thread inside a frame, the blocking wait excluded.
RunningPcs == {"SetEventOnCompletion", "UpdateObjectCBs", "UpdateMainPassCB",
               "Draw", "ExecuteCommandLists", "AdvanceFence", "Signal"}

\* No lost wake-up: the event of a wait whose fence value is reached is set,
\* also when the value was reached before the event was registered.
C12_NoLostWakeup ==
    (pc = "WaitForSingleObject" /\ mFence >= eventHandle.value) => eventHandle.signaled

\* The CPU thread can take its next step at every position of a frame but the
\* fence wait.
C12_BlocksOnlyInWait == pc \in RunningPcs => ENABLED CpuStep

\* When the CPU thread is back between two frames, every frame it began has
\* been submitted and its marker signalled.
C12_FrameProduced == pc = "Idle" => Len(markerHist) = frameCount

\* Every Update that enters the fence wait leaves it and finishes its frame.
C12_WaitEnds == (pc \in WaitPcs) ~> (pc = "Idle")

\* C12: Progress under a live GPU. With a GPU that eventually completes every
\* submitted batch and signals its marker, every Update that enters the fence
\* wait leaves it and the frame is produced, also when the marker is completed
\* between the GetCompletedValue test and the registration of the event; the
\* wait is the only position where the CPU thread blocks.
C12_Progress ==
    /\ [](C12_NoLostWakeup)
    /\ [](C12_BlocksOnlyInWait)
    /\ [](C12_FrameProduced)
    /\ C12_WaitEnds

\* The GPU has reached the awaited marker after the test of Update and before
\* the event is registered.
C12_Witness ==
    /\ pc = "SetEventOnCompletion"
    /\ mFence >= FrameRes(mCurrFrameResource).Fence

\* The CPU thread waits for a marker the hung GPU will not reach.
StalledWait ==
    /\ gpuHung
    /\ pc = "WaitForSingleObject"
    /\ ~eventHandle.signaled

\* C13: Stalled wait is fatal. When the marker awaited in Update is never
\* reached by the GPU, the condition reaches WinMain and the session
\* terminates.
C13_StalledWaitFatal == StalledWait ~> (pc = "Terminated")

\* The arenas of every frame resource.
Arenas == [f \in DOMAIN mFrameResources |->
              <<mFrameResources[f].ObjectCB, mFrameResources[f].PassCB>>]

\* The record a bound descriptor index makes the GPU read.
RecordRead(h) ==
    LET v == ViewAt(h)
    IN  IF v.kind = "pass" THEN FrameRes(v.frame).PassCB[v.slot]
        ELSE IF v.kind = "object" THEN FrameRes(v.frame).ObjectCB[v.slot]
        ELSE NullView

\* Positions of the CPU thread between the hand-over of the frame's command
\* list to the queue and the end of Draw.
SubmittedPcs == {"AdvanceFence", "Signal"}

\* C14, state part: when the frame's command list has been handed to the queue,
\* the loop over all items and the pass write of this frame are done, the views
\* the list binds are those of the frame resource Update selected, and the
\* records they show are this frame's.
C14_SubmitState ==
    pc \in SubmittedPcs =>
        /\ ritemIt = Len(mAllRitems)
        /\ mCurrFrameResourceIndex = slotHist[frameCount]
        /\ ViewAt(mCommandList.passCbvIndex).kind = "pass"
        /\ ViewAt(mCommandList.passCbvIndex).frame = slotHist[frameCount]
        /\ RecordRead(mCommandList.passCbvIndex) = [TotalTime |-> frameCount]
        /\ \A i \in DOMAIN mCommandList.draws :
              LET d == mCommandList.draws[i]
              IN  /\ ViewAt(d.cbvIndex).kind = "object"
                  /\ ViewAt(d.cbvIndex).frame = slotHist[frameCount]
                  /\ RecordRead(d.cbvIndex) = ObjectConstants(Ritem(d.ritem).World)

\* C14, step part: an arena changes only while Update writes, before the
\* frame's submission, and only the arena of the selected frame resource; the
\* active index changes only at the start of Update.
C14_WriteStep ==
    /\ (pc \notin InitPcs /\ Arenas' # Arenas) =>
           /\ pc \in WritingPcs
           /\ Len(markerHist) = frameCount - 1
           /\ mCommandQueue' = mCommandQueue
           /\ \A f \in DOMAIN mFrameResources :
                  f # mCurrFrameResourceIndex + 1 => Arenas'[f] = Arenas[f]
    /\ (pc \notin InitPcs /\ pc # "Idle") =>
           /\ mCurrFrameResourceIndex' = mCurrFrameResourceIndex
           /\ mCurrFrameResource' = mCurrFrameResource

\* C14: Write-before-submit within a frame. All object and pass writes of a
\* frame happen before its command list is handed to the queue, and Draw binds
\* the views of the frame resource Update wrote in that frame.
C14_WriteBeforeSubmit == [](C14_SubmitState) /\ [][C14_WriteStep]_vars

\* A frame that reuses a frame resource is submitted after an item of a
\* two-item scene was rewritten.
C14_Witness ==
    /\ pc \in SubmittedPcs
    /\ frameCount > gNumFrameResources
    /\ Len(mAllRitems) = 2
    /\ mutations > 0

\* Positions of the CPU thread at which the frame's command list is recorded.
RecordedPcs == {"ExecuteCommandLists", "AdvanceFence", "Signal"}

\* C15: Draw submission. Each Draw records exactly one indexed draw call per
\* registered render item, in registration order; the call of an item binds
\* the descriptor index activeFrame*M + ObjCBIndex and passes the IndexCount,
\* StartIndexLocation and BaseVertexLocation of the item's own submesh, for one
\* instance.
C15_DrawSubmission ==
    pc \in RecordedPcs =>
        LET M == Len(mAllRitems)
        IN  /\ Len(mCommandList.draws) = M
            /\ \A i \in 1..M :
                  LET d == mCommandList.draws[i]
                      submesh == DrawArgs(ItemShape(i - 1, M))
                  IN  /\ d.ritem = i - 1
                      /\ d.cbvIndex = mCurrFrameResourceIndex * M + Ritem(i - 1).ObjCBIndex
                      /\ d.call.IndexCountPerInstance = Ritem(i - 1).IndexCount
                      /\ d.call.IndexCountPerInstance = submesh.IndexCount
                      /\ d.call.StartIndexLocation = submesh.StartIndexLocation
                      /\ d.call.BaseVertexLocation = submesh.BaseVertexLocation
                      /\ d.call.InstanceCount = 1

\* A frame of two items with different submeshes is recorded with frame
\* resource 0 active.
C15_Witness ==
    /\ pc = "Signal"
    /\ mCurrFrameResourceIndex = 0
    /\ Len(mCommandList.draws) = 2
    /\ mCommandList.draws[1].call # mCommandList.draws[2].call
    /\ mCommandList.draws[1].cbvIndex # mCommandList.draws[2].cbvIndex

\* C16: Arena write isolation. An iteration of UpdateObjectCBs that pushes the
\* record of item k changes position ObjCBIndex(k) of the active frame
\* resource's object arena and nothing else: every other position of that
\* arena, every position of the other frame resources' object arenas and
\* every pass arena keep their content.
C16_WriteStep ==
    (pc = "UpdateObjectCBs" /\ ritemIt' = ritemIt + 1) =>
        LET s == Ritem(ritemIt).ObjCBIndex
            c == mCurrFrameResourceIndex
        IN  /\ \A f \in Frames :
                  /\ mFrameResources'[f + 1].PassCB = FrameRes(f).PassCB
                  /\ DOMAIN mFrameResources'[f + 1].ObjectCB = DOMAIN FrameRes(f).ObjectCB
                  /\ \A i \in DOMAIN FrameRes(f).ObjectCB :
                        (f # c \/ i # s) =>
                            mFrameResources'[f + 1].ObjectCB[i] = FrameRes(f).ObjectCB[i]
            /\ Ritem(ritemIt).NumFramesDirty > 0 =>
                  mFrameResources'[c + 1].ObjectCB[s] =
                      [World |-> XMMatrixTranspose(Ritem(ritemIt).World)]

C16_WriteIsolation == [][C16_WriteStep]_vars

\* The second item of a two-item scene has been pushed into an arena that
\* holds the first item's record, while the same position of another frame
\* resource's arena is still unwritten.
C16_Witness ==
    /\ pc = "UpdateMainPassCB"
    /\ Len(mAllRitems) = 2
    /\ LET a == FrameRes(mCurrFrameResourceIndex).ObjectCB
       IN  /\ a[0] # GarbageObject
           /\ a[1] # GarbageObject
           /\ a[0] # a[1]
    /\ \E f \in Frames : FrameRes(f).ObjectCB[1] = GarbageObject

\* The capacity of an upload buffer: its number of elements, fixed when the
\* frame resource is constructed.
Capacity(buffer) == Cardinality(DOMAIN buffer)

\* C17: No capacity violation. Once the frame resources are built, every object
\* arena has the capacity mAllRitems.size() and every pass arena the capacity
\* 1; each item's ObjCBIndex, the index its record is written at, is below the
\* object arena's capacity, and the pass record is written at index 0.
C17_NoCapacityViolation ==
    pc \notin {"BuildRenderItems", "BuildFrameResources"} =>
        /\ \A f \in Frames :
              /\ Capacity(FrameRes(f).ObjectCB) = Len(mAllRitems)
              /\ DOMAIN FrameRes(f).ObjectCB = 0..(Len(mAllRitems) - 1)
              /\ Capacity(FrameRes(f).PassCB) = 1
              /\ DOMAIN FrameRes(f).PassCB = {0}
              /\ \A k \in Items :
                    /\ Ritem(k).ObjCBIndex >= 0
                    /\ Ritem(k).ObjCBIndex < Capacity(FrameRes(f).ObjectCB)
        /\ pc = "UpdateObjectCBs" =>
              ElementIndex(Ritem(ritemIt)) \in
                  DOMAIN FrameRes(mCurrFrameResource).ObjectCB
        /\ pc = "Draw" =>
              FrameRes(mCurrFrameResource).PassCB[0] = [TotalTime |-> frameCount]

\* The last item of a two-item scene, with the largest index, is about to be
\* written into an arena.
C17_Witness ==
    /\ pc = "UpdateObjectCBs"
    /\ Len(mAllRitems) = 2
    /\ ritemIt = 1
    /\ Ritem(ritemIt).NumFramesDirty > 0
    /\ Ritem(ritemIt).ObjCBIndex = Capacity(FrameRes(mCurrFrameResource).ObjectCB) - 1

\* The NumFramesDirty of every render item, in order.
DirtyCounters == [k \in DOMAIN mAllRitems |-> mAllRitems[k].NumFramesDirty]

\* C18, state part: every item is created with NumFramesDirty = N, and the
\* counter stays within 0..N.
C18_CounterState ==
    /\ pc = "BuildFrameResources" =>
           \A k \in Items : Ritem(k).NumFramesDirty = gNumFrameResources
    /\ \A k \in Items : Ritem(k).NumFramesDirty \in 0..gNumFrameResources

\* C18, step part: the iteration of UpdateObjectCBs for an item with a counter
\* above 0 writes its record to the active arena and decreases the counter by
\* exactly 1; for an item with counter 0 it writes nothing and leaves the
\* counter at 0; it changes no other item's counter, and only this iteration
\* and a mutation of the item's transform change a counter.
C18_CounterStep ==
    /\ (pc = "UpdateObjectCBs" /\ ritemIt' = ritemIt + 1) =>
           LET e == Ritem(ritemIt)
           IN  /\ e.NumFramesDirty > 0 =>
                     /\ mAllRitems'[ritemIt + 1].NumFramesDirty = e.NumFramesDirty - 1
                     /\ mFrameResources'[mCurrFrameResourceIndex + 1].ObjectCB[e.ObjCBIndex]
                            = [World |-> XMMatrixTranspose(e.World)]
               /\ e.NumFramesDirty = 0 =>
                     /\ mAllRitems'[ritemIt + 1].NumFramesDirty = 0
                     /\ Arenas' = Arenas
               /\ \A k \in Items :
                     k # ritemIt => mAllRitems'[k + 1].NumFramesDirty = Ritem(k).NumFramesDirty
    /\ (pc \notin InitPcs /\ DirtyCounters' # DirtyCounters) =>
           \/ pc = "UpdateObjectCBs"
           \/ \E k \in Items : Mutated(k)

\* C18: Dirty counter step and skip.
C18_DirtyCounter == [](C18_CounterState) /\ [][C18_CounterStep]_vars

\* In a frame after the Nth, the first item, fully propagated, has been
\* skipped and the second, mutated since, is about to be pushed.
C18_Witness ==
    /\ pc = "UpdateObjectCBs"
    /\ frameCount > gNumFrameResources
    /\ ritemIt = 1
    /\ Len(mAllRitems) = 2
    /\ Ritem(0).NumFramesDirty = 0
    /\ Ritem(1).NumFramesDirty > 0

\* The ObjCBIndex of every render item, in registration order.
SlotIndices == [k \in DOMAIN mAllRitems |-> mAllRitems[k].ObjCBIndex]

\* C19, state part: the item at registration position k has ObjCBIndex k, so
\* the indices of the M items are pairwise distinct and are exactly 0..M-1.
C19_SlotState ==
    pc # "BuildRenderItems" =>
        /\ Len(mAllRitems) >= 1
        /\ \A k \in Items : Ritem(k).ObjCBIndex = k
        /\ \A j, k \in Items : j # k => Ritem(j).ObjCBIndex # Ritem(k).ObjCBIndex
        /\ {Ritem(k).ObjCBIndex : k \in Items} = 0..(Len(mAllRitems) - 1)

\* C19, step part: no step after BuildRenderItems changes an ObjCBIndex or the
\* number of items.
C19_SlotStep == pc # "BuildRenderItems" => SlotIndices' = SlotIndices

\* C19: Stable, unique slot indices.
C19_StableSlots == [](C19_SlotState) /\ [][C19_SlotStep]_vars

\* Two items keep their indices through a mutation and through the reuse of
\* a frame resource.
C19_Witness ==
    /\ pc = "UpdateMainPassCB"
    /\ frameCount > gNumFrameResources
    /\ mutations > 0
    /\ SlotIndices = <<0, 1>>

\* C20, state part: from the end of UpdateMainPassCB to the end of Draw, index
\* 0 of the active frame resource's pass arena holds the pass record of this
\* frame, and so does the pass view the recorded command list binds: never
\* the record written N frames earlier.
C20_PassState ==
    /\ pc \in ({"Draw"} \cup RecordedPcs) =>
           /\ FrameRes(mCurrFrameResourceIndex).PassCB[0].TotalTime = frameCount
           /\ FrameRes(mCurrFrameResourceIndex).PassCB[0].TotalTime
                  # frameCount - gNumFrameResources
    /\ pc \in RecordedPcs =>
           /\ ViewAt(mCommandList.passCbvIndex) =
                  [kind |-> "pass", frame |-> mCurrFrameResourceIndex, slot |-> 0]
           /\ RecordRead(mCommandList.passCbvIndex).TotalTime = frameCount

\* C20, step part: the pass write of Update is made in every frame, whatever
\* the dirty counters are, and changes index 0 of the active pass arena only.
C20_PassStep ==
    (pc = "UpdateMainPassCB" /\ pc' # pc) =>
        /\ pc' = "Draw"
        /\ mFrameResources'[mCurrFrameResourceIndex + 1].PassCB[0].TotalTime = frameCount
        /\ \A f \in Frames :
              /\ mFrameResources'[f + 1].ObjectCB = FrameRes(f).ObjectCB
              /\ f # mCurrFrameResourceIndex =>
                     mFrameResources'[f + 1].PassCB = FrameRes(f).PassCB

\* C20: Pass record republished every frame.
C20_PassRepublished == [](C20_PassState) /\ [][C20_PassStep]_vars

\* A frame that reuses a frame resource is recorded while no item is dirty:
\* its pass arena held the record of N frames earlier and now holds this
\* frame's.
C20_Witness ==
    /\ pc = "ExecuteCommandLists"
    /\ frameCount > gNumFrameResources
    /\ \A k \in Items : Ritem(k).NumFramesDirty = 0
    /\ RecordRead(mCommandList.passCbvIndex).TotalTime = frameCount

\* C21, state part: the recorded frame uses the wireframe pipeline state if and
\* only if the '1' key was down when this frame's Update queried the keyboard,
\* whatever the key did before and has done since.
C21_WireframeState ==
    pc \in ({"Draw"} \cup RecordedPcs) =>
        /\ mIsWireframe <=> sampledDown
        /\ pc \in RecordedPcs =>
              /\ mCommandList.pso \in {"opaque", "opaque_wireframe"}
              /\ (mCommandList.pso = "opaque_wireframe") <=> sampledDown

\* C21, step part: every Update sets mIsWireframe to the state of the key at
\* that moment, so a released key makes the very next frame solid; no other
\* step changes mIsWireframe.
C21_WireframeStep ==
    /\ (pc = "Idle" /\ pc' # "Idle") => (mIsWireframe' <=> keyState.down)
    /\ pc # "Idle" => mIsWireframe' = mIsWireframe

\* C21: Wireframe is held, not toggled.
C21_WireframeHeld == [](C21_WireframeState) /\ [][C21_WireframeStep]_vars

\* A solid frame is recorded while a wireframe frame is still in the queue and
\* the key is down again: it was released before this frame's Update and
\* pressed after it.
C21_Witness ==
    /\ pc \in RecordedPcs
    /\ mCommandList.pso = "opaque"
    /\ keyState.down
    /\ \E i \in DOMAIN mCommandQueue :
          /\ mCommandQueue[i].type = "Execute"
          /\ mCommandQueue[i].cmds.pso = "opaque_wireframe"

\* C22 (as amended): No stale transform is ever submitted. When a frame's
\* commands are submitted, the record at each item's ObjCBIndex in the active
\* frame resource's object arena is the transpose of the item's transform as
\* of that frame's Update, in the first N frames and after a mutation too.
C22_NoStaleTransform ==
    pc \in SubmittedPcs =>
        \A k \in Items :
            ArenaRecord(mCurrFrameResourceIndex, k)
                = [World |-> XMMatrixTranspose(Ritem(k).World)]

\* The first frame after the mutation of an item is submitted, from a frame
\* resource that held the record of the item's previous transform.
C22_Witness ==
    /\ pc \in SubmittedPcs
    /\ frameCount > gNumFrameResources
    /\ \E k \in Items :
          /\ sinceMut[k + 1] = 1
          /\ dirtyAtMut[k + 1] = 0
          /\ Ritem(k).World # Identity4x4
          /\ Ritem(k).World # pendingWorld[k + 1]

\* C22 as stated: at submission the record equals the item's transform itself.
C22_Original ==
    pc \in SubmittedPcs =>
        \A k \in Items :
            ArenaRecord(mCurrFrameResourceIndex, k).World = Ritem(k).World

\* The positions in the queue of the unfinished command lists recorded with
\* the command allocator of frame resource f.
Unfinished(f) ==
    {i \in DOMAIN mCommandQueue :
        /\ mCommandQueue[i].type = "Execute"
        /\ mCommandQueue[i].cmds.cmdListAlloc = f}

\* C23 (as amended): Marker reached implies work finished. In the queue every
\* command list is followed at once by the fence point of its frame, the last
\* one excepted while Draw is between ExecuteCommandLists and Signal. Outside
\* the steps of Draw between ExecuteCommandLists and the stamping of Fence for
\* the active frame resource, a completed value at or above a frame resource's
\* Fence means that no command list recorded with its allocator is unfinished;
\* and none is when Draw resets the allocator.
C23_MarkerImpliesDone ==
    /\ \A i \in DOMAIN mCommandQueue :
          mCommandQueue[i].type = "Execute" =>
              IF i < Len(mCommandQueue)
              THEN mCommandQueue[i + 1].type = "Signal"
              ELSE pc \in SubmittedPcs
    /\ \A f \in Frames :
          (/\ f + 1 \in DOMAIN mFrameResources
           /\ ~(pc = "AdvanceFence" /\ f = mCurrFrameResourceIndex)
           /\ mFence >= FrameRes(f).Fence)
              => Unfinished(f) = {}
    /\ pc = "Draw" => Unfinished(mCurrFrameResource) = {}

\* Draw resets the allocator of a frame resource submitted before, whose
\* marker is reached, while the GPU still has later frames to execute.
C23_Witness ==
    /\ pc = "Draw"
    /\ FrameRes(mCurrFrameResource).Fence # 0
    /\ mFence >= FrameRes(mCurrFrameResource).Fence
    /\ \E f \in Frames : Unfinished(f) # {}

\* C23 as stated: whenever the completed value is at or above the Fence of a
\* frame resource that was stamped, no command list recorded with its
\* allocator is unfinished.
C23_Original ==
    \A f \in Frames :
        (/\ f + 1 \in DOMAIN mFrameResources
         /\ FrameRes(f).Fence # 0
         /\ mFence >= FrameRes(f).Fence)
            => Unfinished(f) = {}

\* The frame resources for which a Draw has stamped Fence: those of the
\* finished Draws, and the active one once Draw is past the stamping.
StampedSlots ==
    {slotHist[i] : i \in 1..Len(markerHist)}
        \cup (IF pc = "Signal" THEN {mCurrFrameResourceIndex} ELSE {})

Uncompleted == {i \in DOMAIN markerHist : markerHist[i] > mFence}

\* Positions between the end of the fence wait of Update and the submission in
\* Draw.
RecordingPcs == WritingPcs \cup {"Draw", "ExecuteCommandLists"}

\* C25: In-flight bound seen by the writer. While the producer writes and
\* records against the active frame resource, at most N-1 earlier submitted
\* frames are uncompleted and none of them used the active frame resource, nor
\* does any unfinished command list read its buffers; at every other moment at
\* most N submitted frames are uncompleted.
C25_WriterBound ==
    /\ pc \in RecordingPcs =>
          /\ Cardinality(Uncompleted) <= gNumFrameResources - 1
          /\ \A i \in Uncompleted : slotHist[i] # mCurrFrameResourceIndex
          /\ mCurrFrameResourceIndex \notin FramesInFlight
    /\ pc \notin RecordingPcs =>
          Cardinality(Uncompleted) + (IF pc \in SubmittedPcs THEN 1 ELSE 0)
              <= gNumFrameResources

\* Past the first round the producer writes the active frame resource while
\* the N-1 frames submitted last are all uncompleted.
C25_Witness ==
    /\ pc \in WritingPcs
    /\ frameCount > gNumFrameResources
    /\ Cardinality(Uncompleted) = gNumFrameResources - 1
    /\ FramesInFlight # {}

\* The descriptor indices a recorded command list binds.
BoundIndices(cmds) ==
    {cmds.passCbvIndex} \cup {cmds.draws[i].cbvIndex : i \in DOMAIN cmds.draws}

\* The command lists recorded so far that are still known: the one Draw has
\* closed and those waiting in the queue.
RecordedLists ==
    {mCommandQueue[i].cmds :
        i \in {j \in DOMAIN mCommandQueue : mCommandQueue[j].type = "Execute"}}
        \cup (IF pc \in RecordedPcs THEN {mCommandList} ELSE {})

\* C26: Descriptor table exactly filled. Once the views are built, the heap
\* has (M+1)*N descriptors; every index published (f*M + s and N*M + f) or
\* bound by a command list is below (M+1)*N; every position 0..(M+1)*N-1 is
\* published exactly once; the object views of frame f fill the block
\* [f*M, (f+1)*M) in slot order and the N pass views the block [N*M, N*M+N).
C26_HeapExactlyFilled ==
    pc \notin InitPcs =>
        LET M == Len(mOpaqueRitems)
            N == gNumFrameResources
            index == [t \in Triples |-> HeapIndexOf(t)]
        IN  /\ DOMAIN mCbvHeap = 0..((M + 1) * N - 1)
            /\ \A t \in Triples :
                  /\ index[t] \in 0..((M + 1) * N - 1)
                  /\ index[t] = IF t[2] = "object" THEN t[1] * M + t[3]
                                                   ELSE N * M + t[1]
            /\ \A h \in 0..((M + 1) * N - 1) :
                  /\ Cardinality({t \in Triples : index[t] = h}) = 1
                  /\ mCbvHeap[h] =
                        IF h < N * M
                        THEN [kind |-> "object", frame |-> h \div M, slot |-> h % M]
                        ELSE [kind |-> "pass", frame |-> h - N * M, slot |-> 0]
            /\ \A cmds \in RecordedLists :
                  \A h \in BoundIndices(cmds) : h \in 0..((M + 1) * N - 1)

\* The heap of a scene of two items is filled and a command list recorded
\* against the last frame resource binds its last object view and pass view.
C26_Witness ==
    /\ pc = "ExecuteCommandLists"
    /\ Len(mOpaqueRitems) = 2
    /\ Cardinality(DOMAIN mCbvHeap) = 9
    /\ BoundIndices(mCommandList) = {4, 5, 8}
    /\ mCbvHeap[8].kind = "pass"

\* C27 (state part): from the end of BuildRenderItems on, mOpaqueRitems has
\* the length of mAllRitems and points to the same items in the same order;
\* once built, every object buffer has that capacity, and mPassCbvOffset and
\* the heap are sized with the same count; a recorded command list has one
\* draw per item, in the order of mAllRitems.
C27_CountState ==
    /\ pc # "BuildRenderItems" =>
          /\ Len(mOpaqueRitems) = Len(mAllRitems)
          /\ \A k \in DOMAIN mOpaqueRitems : mOpaqueRitems[k] = k - 1
    /\ pc \notin InitPcs =>
          /\ \A f \in Frames :
                Capacity(FrameRes(f).ObjectCB) = Len(mOpaqueRitems)
          /\ mPassCbvOffset = Len(mAllRitems) * gNumFrameResources
          /\ Cardinality(DOMAIN mCbvHeap) =
                (Len(mAllRitems) + 1) * gNumFrameResources
    /\ pc \in RecordedPcs =>
          /\ Len(mCommandList.draws) = Len(mAllRitems)
          /\ \A i \in DOMAIN mCommandList.draws :
                mCommandList.draws[i].ritem = i - 1

\* C27 (step part): no step after BuildRenderItems adds or removes an item or
\* reorders mOpaqueRitems.
C27_CountStep ==
    pc # "BuildRenderItems" =>
        /\ Len(mAllRitems') = Len(mAllRitems)
        /\ mOpaqueRitems' = mOpaqueRitems

\* C27: One item count everywhere. The count used for descriptor addressing
\* equals the object arena capacity, mOpaqueRitems lists the items of
\* mAllRitems in the same order, and no item is added after BuildRenderItems.
C27_OneItemCount == [](C27_CountState) /\ [][C27_CountStep]_vars

\* A frame of a two-item scene has been recorded after Initialize.
C27_Witness ==
    /\ pc = "AdvanceFence"
    /\ Len(mAllRitems) = 2
    /\ mOpaqueRitems = <<0, 1>>
    /\ Capacity(FrameRes(mCurrFrameResource).ObjectCB) = 2
    /\ Len(mCommandList.draws) = 2

\* Positions at which the frame code dereferences mCurrFrameResource.
DerefPcs == WaitPcs \cup WritingPcs \cup {"Draw", "ExecuteCommandLists", "AdvanceFence"}

\* C28: Slot order of the first frames. Before the first Update the index is 0
\* and no frame resource is current; produced frame i < N uses frame resource
\* i, and frame resource 0 is first used by the Nth produced frame; wherever
\* Update or Draw dereferences mCurrFrameResource it is not null and is the
\* frame resource selected by the Update of that frame.
C28_FirstSlots ==
    /\ frameCount = 0 =>
          /\ mCurrFrameResourceIndex = 0
          /\ mCurrFrameResource = NullPtr
    /\ \A i \in DOMAIN slotHist :
          /\ i < gNumFrameResources => slotHist[i] = i
          /\ i = gNumFrameResources => slotHist[i] = 0
          /\ slotHist[i] = 0 => i >= gNumFrameResources
    /\ pc \in DerefPcs =>
          /\ frameCount >= 1
          /\ mCurrFrameResource # NullPtr
          /\ mCurrFrameResource = slotHist[frameCount]
    /\ pc \in RecordedPcs => mCommandList.cmdListAlloc = slotHist[frameCount]

\* The Nth produced frame is the first to be recorded with frame resource 0.
C28_Witness ==
    /\ pc = "ExecuteCommandLists"
    /\ frameCount = gNumFrameResources
    /\ slotHist = <<1, 2, 0>>
    /\ mCommandList.cmdListAlloc = 0

\* Positions at which the UpdateObjectCBs of the current frame has returned.
LoopDonePcs == {"UpdateMainPassCB", "Draw", "ExecuteCommandLists", "AdvanceFence",
                "Signal", "Idle"}

\* C29 (state part): in a static scene, each of the first N produced frames
\* writes one object record per item visited, M in all, each into a record of
\* its own frame resource not written before; the total is N*M once N frames
\* are produced, when every record of every object buffer has been written;
\* from frame N+1 on a frame writes none.
C29_WriteState ==
    mutations = 0 =>
        LET M == Len(mAllRitems)
            N == gNumFrameResources
        IN  /\ objectWrites <= N * M
            /\ (pc = "UpdateObjectCBs" /\ frameCount <= N) =>
                  /\ frameWrites = ritemIt
                  /\ objectWrites = (frameCount - 1) * M + ritemIt
                  /\ \A k \in Items :
                        k >= ritemIt =>
                            ArenaRecord(mCurrFrameResourceIndex, k) = GarbageObject
            /\ (pc \in LoopDonePcs /\ frameCount \in 1..N) =>
                  /\ frameWrites = M
                  /\ objectWrites = frameCount * M
                  /\ \A k \in Items :
                        ArenaRecord(mCurrFrameResourceIndex, k) # GarbageObject
            /\ frameCount > N =>
                  /\ frameWrites = 0
                  /\ objectWrites = N * M
                  /\ \A f \in Frames, k \in Items :
                        ArenaRecord(f, k) # GarbageObject

\* The object buffer of every frame resource, in order.
ObjectArenas == [f \in DOMAIN mFrameResources |-> mFrameResources[f].ObjectCB]

\* C29 (step part): in a static scene no step of a frame after the Nth
\* changes an object buffer or a dirty counter, or counts a write.
C29_WriteStep ==
    (mutations' = 0 /\ frameCount > gNumFrameResources) =>
        /\ ObjectArenas' = ObjectArenas
        /\ DirtyCounters' = DirtyCounters
        /\ objectWrites' = objectWrites

\* C29: Bounded copying for a static scene. When no transform is mutated after
\* the scene is built, exactly N*M object records are written in total, M in
\* each of the first N produced frames, one per item per frame resource, and
\* from produced frame N+1 on UpdateObjectCBs writes no object record.
C29_BoundedCopying == [](C29_WriteState) /\ [][C29_WriteStep]_vars

\* The UpdateObjectCBs of a frame after the Nth has visited the two items of a
\* static scene and written nothing.
C29_Witness ==
    /\ mutations = 0
    /\ frameCount = gNumFrameResources + 1
    /\ pc = "UpdateMainPassCB"
    /\ Len(mAllRitems) = 2
    /\ objectWrites = gNumFrameResources * 2
    /\ frameWrites = 0

====
